---- MODULE Spec2Model ----
(***************************************************************************)
(* Model of the time-tracking engine of src/app.py (class TimesheetApp):   *)
(* the timesheet ledger kept in a Google Sheet, the cached sheet reader,   *)
(* the hours adjustment and the clock-in / clock-out handlers.             *)
(*                                                                         *)
(* Units.  An instant is a number of minutes of London wall-clock time     *)
(* since an arbitrary day 0.  A calendar date is a day number, a time of   *)
(* day ('%H:%M:%S') is a number of minutes in 0..1439.  Hours written to   *)
(* the sheet are kept in hundredths of an hour (2.25 h = 225), which is    *)
(* what round(x, 2) leaves.                                                *)
(***************************************************************************)
EXTENDS Integers, Sequences, FiniteSets, TLC

VARIABLES sheet,   \* data rows of the timesheet sheet (the header row is row 1 of the sheet)
          cache,   \* st.cache_data entry of read_sheet_to_df for the timesheet sheet
          now,     \* the current instant, in London wall-clock minutes
          tz,      \* minutes by which the server's local zone is ahead of London
          req,     \* per browser session: the request being handled and its locals
          started, \* requests started so far, counted in the bounded specifications
          report_cache, \* st.cache_data entries of get_entries_by_date_range, by arguments
          calc     \* a call of one of the pure calculators: its arguments and its result

vars == <<sheet, cache, now, tz, req, started, report_cache, calc>>

----------------------------------------------------------------------------
(* Bounds of the model *)

MaxRows == 2

\* requests per behaviour in the specifications that bound them
MaxRequests == 3
Unlimited == 0 - 1

\* calculate_payroll_periods is looked at for 0 .. MaxPeriods periods
MaxPeriods == 6

\* calculate_program_totals is looked at for frames of 0 .. MaxEntries entries
MaxEntries == 4

\* adjust_hours is looked at for -MaxMinutes .. MaxMinutes minutes
MaxMinutes == 300
ActualMinutes == (0 - MaxMinutes)..MaxMinutes

Sessions == {"s1", "s2"}
MainSession == "s1"

\* the worker directory (teachers sheet) and the ids typed into the form
Teachers == {"t1", "t2"}
TeacherInputs == {"t1", "t2", "t9", ""}

\* instants the clock passes through: day 1 23:10, day 2 00:10, 02:10 and 02:40
FirstInstant == 1 * 24 * 60 + 23 * 60 + 10
Instants == {FirstInstant, 2890, 3010, 3040}

\* offsets of the server's zone from London
ServerOffsets == {0, 120, 0 - 60}

\* date ranges (first day, last day) asked of the history page
ReportWindows == {<<1, 1>>, <<1, 2>>}
\* the start and end dates that can be put to the custom range, an end before
\* the start included
RangeInputs == ReportWindows \cup {<<2, 1>>}
ReportKeys == Teachers \X RangeInputs

----------------------------------------------------------------------------
(* Program constants *)

SelectProgram == "Select Program"
Programs == {"Rawdat", "Rawdat + Admin Work", "Sigaar", "Mukhayyam", "Kibaar", "Camp"}
ProgramInputs == {SelectProgram, "Rawdat", "Rawdat + Admin Work"}

MinutesPerHour == 60
MinutesPerDay == 24 * 60

\* the empty clock_out cell ''
NoClockOut == 0 - 1

----------------------------------------------------------------------------
(* Clocks *)

\* datetime.now().strftime('%Y-%m-%d'): the date of the server's local zone
ServerDate == (now + tz) \div MinutesPerDay

\* get_london_time(): the aware London datetime, here as (date, time of day)
get_london_time == [date |-> now \div MinutesPerDay, time |-> now % MinutesPerDay]

----------------------------------------------------------------------------
(* Hours adjustment *)

get_program_cap(program) ==
    CASE program = "Rawdat" -> 200
      [] program = "Rawdat + Admin Work" -> 250
      [] program = "Sigaar" -> 200
      [] program = "Mukhayyam" -> 400
      [] program = "Kibaar" -> 200
      [] program = "Camp" -> 400
      [] OTHER -> 200

\* variant: the buckets end one minute early
round_partial_hour_strict(minutes) ==
    IF minutes < 15 THEN 25
    ELSE IF minutes < 30 THEN 50
    ELSE IF minutes < 45 THEN 75
    ELSE 100

round_partial_hour(minutes) ==
    IF minutes <= 15 THEN 25
    ELSE IF minutes <= 30 THEN 50
    ELSE IF minutes <= 45 THEN 75
    ELSE 100

\* int(x): truncation toward zero of actual_minutes / 60
IntHours(actual_minutes) ==
    IF actual_minutes >= 0 THEN actual_minutes \div MinutesPerHour
    ELSE 0 - ((0 - actual_minutes) \div MinutesPerHour)

\* variant: no cap
adjust_hours_uncapped(actual_minutes, program) ==
    IntHours(actual_minutes) * 100
        + round_partial_hour(actual_minutes - IntHours(actual_minutes) * MinutesPerHour)

\* actual_hours is actual_minutes / 60; the result is in hundredths of an hour
adjust_hours(actual_minutes, program) ==
    LET program_cap == get_program_cap(program)
        whole_hours == IntHours(actual_minutes)
        remaining_minutes == actual_minutes - whole_hours * MinutesPerHour
    IN  IF actual_minutes * 100 > program_cap * MinutesPerHour
        THEN program_cap
        ELSE whole_hours * 100 + round_partial_hour(remaining_minutes)

\* round(actual_hours, 2) in hundredths: the nearest integer to m * 100 / 60
\* (m * 5 / 3 is never a tie)
RoundHours(actual_minutes) == (2 * 5 * actual_minutes + 3) \div 6

----------------------------------------------------------------------------
(* Payroll periods; a date is <<year, month, day>> *)

Years == {2024, 2025}

IsLeap(year) == year % 4 = 0 /\ (year % 100 # 0 \/ year % 400 = 0)

DaysInMonth(year, month) ==
    IF month = 2 THEN (IF IsLeap(year) THEN 29 ELSE 28)
    ELSE IF month \in {4, 6, 9, 11} THEN 30
    ELSE 31

\* the dates datetime.now() can show
Todays ==
    {d \in Years \X (1..12) \X (1..31) : d[3] <= DaysInMonth(d[1], d[2])}

\* calendar.month_abbr
month_abbr ==
    <<"Jan", "Feb", "Mar", "Apr", "May", "Jun", "Jul", "Aug", "Sep", "Oct", "Nov", "Dec">>

\* variant: the 20th still belongs to the period that ends this month
current_period_end_late(current_date) ==
    IF current_date[3] <= 20
    THEN <<current_date[1], current_date[2]>>
    ELSE IF current_date[2] = 12
    THEN <<current_date[1] + 1, 1>>
    ELSE <<current_date[1], current_date[2] + 1>>

\* lines 350-361: <<end_year, end_month>> of the current period
current_period_end(current_date) ==
    IF current_date[3] < 20
    THEN <<current_date[1], current_date[2]>>
    ELSE IF current_date[2] = 12
    THEN <<current_date[1] + 1, 1>>
    ELSE <<current_date[1], current_date[2] + 1>>

\* variant: December of the same year before January
previous_period_end_same_year(end_year, end_month) ==
    IF end_month = 1 THEN <<end_year, 12>> ELSE <<end_year, end_month - 1>>

\* lines 374-378: the end month of the period before
previous_period_end(end_year, end_month) ==
    IF end_month = 1 THEN <<end_year - 1, 12>> ELSE <<end_year, end_month - 1>>

\* variant: December of the same year before January
period_start_same_year(end_year, end_month) ==
    IF end_month = 1 THEN <<end_year, 12, 20>> ELSE <<end_year, end_month - 1, 20>>

\* lines 383-390: the start date of the period that ends in end_month
period_start(end_year, end_month) ==
    IF end_month = 1 THEN <<end_year - 1, 12, 20>> ELSE <<end_year, end_month - 1, 20>>

\* lines 381-397: one period, as appended to the list
period(end_year, end_month) ==
    LET start_date == period_start(end_year, end_month)
        end_date == <<end_year, end_month, 19>>
    IN  [start_date |-> start_date,
         end_date |-> end_date,
         display_name |-> <<month_abbr[start_date[2]], 20, month_abbr[end_date[2]], 19,
                            end_date[1]>>]

\* lines 367-397: the loop, from iteration i with end_year and end_month as
\* the iteration before left them
RECURSIVE payroll_loop(_, _, _, _, _)
payroll_loop(i, num_periods, end_year, end_month, periods) ==
    IF i >= num_periods THEN periods
    ELSE LET end == IF i = 0 THEN <<end_year, end_month>>
                    ELSE previous_period_end(end_year, end_month)
         IN  payroll_loop(i + 1, num_periods, end[1], end[2],
                          Append(periods, period(end[1], end[2])))

\* lines 335-398, current_date being datetime.now()
calculate_payroll_periods(current_date, num_periods) ==
    LET end == current_period_end(current_date)
    IN  payroll_loop(0, num_periods, end[1], end[2], <<>>)

----------------------------------------------------------------------------
(* Program totals; a mapping is the sequence of its items in dict order *)

MergedLabel == "Rawdat & Rawdat + Admin Work"

\* the order of Python's str comparison on the labels that occur
sorted_labels ==
    <<"Camp", "Kibaar", "Mukhayyam", "Rawdat", "Rawdat & Rawdat + Admin Work",
      "Rawdat + Admin Work", "Sigaar">>

label_rank(label) == CHOOSE i \in 1..Len(sorted_labels) : sorted_labels[i] = label

\* line 746: entries.groupby('program')['adjusted_hours'].sum() for one program;
\* .round(2) changes nothing on sums of hundredths
RECURSIVE group_sum(_, _)
group_sum(entries, program) ==
    IF entries = <<>> THEN 0
    ELSE (IF Head(entries).program = program THEN Head(entries).adjusted_hours ELSE 0)
            + group_sum(Tail(entries), program)

\* lines 746-749: the totals of the programs that occur in the frame
program_totals(entries) ==
    [program \in {entries[i].program : i \in 1..Len(entries)} |->
        group_sum(entries, program)]

\* lines 751-762: "Rawdat" and "Rawdat + Admin Work" become one key, kept only
\* when its total is positive
merge_rawdat(totals_dict) ==
    LET rawdat_total ==
            (IF "Rawdat" \in DOMAIN totals_dict THEN totals_dict["Rawdat"] ELSE 0)
          + (IF "Rawdat + Admin Work" \in DOMAIN totals_dict
             THEN totals_dict["Rawdat + Admin Work"] ELSE 0)
        others == DOMAIN totals_dict \ {"Rawdat", "Rawdat + Admin Work"}
    IN  [label \in others \cup (IF rawdat_total > 0 THEN {MergedLabel} ELSE {}) |->
            IF label \in others THEN totals_dict[label] ELSE rawdat_total]

\* variant: by name only
sort_key_le_by_name(totals_dict, a, b) ==
    label_rank(a) <= label_rank(b)

\* line 767: key=lambda x: (-x[1], x[0])
sort_key_le(totals_dict, a, b) ==
    \/ 0 - totals_dict[a] < 0 - totals_dict[b]
    \/ /\ totals_dict[a] = totals_dict[b]
       /\ label_rank(a) <= label_rank(b)

\* lines 765-768: dict(sorted(totals_dict.items(), key=...))
RECURSIVE sorted_items(_)
sorted_items(totals_dict) ==
    IF DOMAIN totals_dict = {} THEN <<>>
    ELSE LET first == CHOOSE a \in DOMAIN totals_dict :
                        \A b \in DOMAIN totals_dict : sort_key_le(totals_dict, a, b)
         IN  <<[program |-> first, total |-> totals_dict[first]]>>
                \o sorted_items([label \in DOMAIN totals_dict \ {first} |-> totals_dict[label]])

\* lines 733-772
calculate_program_totals(entries) ==
    IF entries = <<>> THEN <<>>
    ELSE sorted_items(merge_rawdat(program_totals(entries)))

----------------------------------------------------------------------------
(* The sheet and its cached reader *)

\* pd.DataFrame(): no columns, no rows
EmptyDataFrame == [has_columns |-> FALSE, rows |-> <<>>]

NoCache == [valid |-> FALSE, df |-> EmptyDataFrame]

\* read_sheet_to_df under st.cache_data: a cached value is returned as is;
\* otherwise the sheet is fetched, and a failed fetch yields (and caches)
\* the empty frame
read_sheet_to_df(c, sh, ok) ==
    IF c.valid THEN [df |-> c.df, cache |-> c]
    ELSE LET df == IF ok THEN [has_columns |-> TRUE, rows |-> sh] ELSE EmptyDataFrame
         IN  [df |-> df, cache |-> [valid |-> TRUE, df |-> df]]

\* rows of the frame that are open sessions of the teacher on the date
OpenRows(rows, teacher_id, current_date) ==
    {i \in 1..Len(rows) : /\ rows[i].teacher_id = teacher_id
                          /\ rows[i].date = current_date
                          /\ rows[i].clock_out = NoClockOut}

Min(S) == CHOOSE x \in S : \A y \in S : x <= y

\* variant: the clock_out filter is inverted (closed rows count as active)
check_active_session_inverted(df, teacher_id, current_date) ==
    LET active_session == {i \in 1..Len(df.rows) : /\ df.rows[i].teacher_id = teacher_id
                                                   /\ df.rows[i].date = current_date
                                                   /\ df.rows[i].clock_out # NoClockOut}
    IN  IF active_session # {}
        THEN [has_active |-> TRUE, program |-> df.rows[Min(active_session)].program]
        ELSE [has_active |-> FALSE, program |-> "None"]

\* variant: the clock_out filter is missing (every row of today counts as active)
check_active_session_unfiltered(df, teacher_id, current_date) ==
    LET active_session == {i \in 1..Len(df.rows) : /\ df.rows[i].teacher_id = teacher_id
                                                   /\ df.rows[i].date = current_date}
    IN  IF active_session # {}
        THEN [has_active |-> TRUE, program |-> df.rows[Min(active_session)].program]
        ELSE [has_active |-> FALSE, program |-> "None"]

check_active_session(df, teacher_id, current_date) ==
    LET active_session == OpenRows(df.rows, teacher_id, current_date)
    IN  IF active_session # {}
        THEN [has_active |-> TRUE, program |-> df.rows[Min(active_session)].program]
        ELSE [has_active |-> FALSE, program |-> "None"]

\* get_teacher_info: the lookup in the teachers sheet; a failed read gives None
get_teacher_info(teacher_id, ok) == ok /\ teacher_id \in Teachers

\* variant: a conditional append that refuses a second open entry
append_to_sheet_conditional(sh, values, ok) ==
    IF ok /\ OpenRows(sh, values.teacher_id, values.date) = {} THEN Append(sh, values) ELSE sh

append_to_sheet(sh, values, ok) == IF ok THEN Append(sh, values) ELSE sh

\* variant: the header row is not counted
update_sheet_cell_no_header(sh, row_number, col, value, ok) ==
    IF ok /\ row_number \in 1..Len(sh)
    THEN [sh EXCEPT ![row_number] = [@ EXCEPT ![col] = value]]
    ELSE sh

\* update of the cell in column col of sheet row row_number (row 1 is the header)
update_sheet_cell(sh, row_number, col, value, ok) ==
    IF ok /\ row_number - 1 \in 1..Len(sh)
    THEN [sh EXCEPT ![row_number - 1] = [@ EXCEPT ![col] = value]]
    ELSE sh

\* a successful write clears the caches of read_sheet_to_df and of
\* check_active_session (lines 566-567, 587-588), and no other
ClearCache(c, ok) == IF ok THEN NoCache ELSE c

\* get_entries_by_date_range, lines 659-689: the teacher's rows dated within
\* start_date..end_date, both inclusive; an empty frame gives an empty frame
InRange(row, teacher_id, start_date, end_date) ==
    /\ row.teacher_id = teacher_id
    /\ row.date >= start_date
    /\ row.date <= end_date

get_entries_by_date_range(timesheet_df, teacher_id, start_date, end_date) ==
    IF timesheet_df.rows = <<>>
    THEN EmptyDataFrame
    ELSE [has_columns |-> TRUE,
          rows |-> SelectSeq(timesheet_df.rows,
                             LAMBDA row : InRange(row, teacher_id, start_date, end_date))]

\* the day number of a date <<year, month, day>>, as date.toordinal(): the
\* 'YYYY-MM-DD' strings of lines 663-677 compare as the days they name
RECURSIVE days_before_month(_, _)
days_before_month(year, month) ==
    IF month = 1 THEN 0
    ELSE days_before_month(year, month - 1) + DaysInMonth(year, month - 1)

toordinal(date) ==
    LET y == date[1] - 1
    IN  y * 365 + y \div 4 - y \div 100 + y \div 400
          + days_before_month(date[1], date[2]) + date[3]

\* variant: the month ends a day early
get_month_start_end_dates_short(year, month) ==
    <<(<<year, month, 1>>), (<<year, month, DaysInMonth(year, month) - 1>>)>>

\* lines 450-463: <<start_date, end_date>>, calendar.monthrange giving the last day
get_month_start_end_dates(year, month) ==
    <<(<<year, month, 1>>), (<<year, month, DaysInMonth(year, month)>>)>>

\* lines 695-706
get_monthly_entries(timesheet_df, teacher_id, year, month) ==
    LET dates == get_month_start_end_dates(year, month)
    IN  get_entries_by_date_range(timesheet_df, teacher_id,
                                  toordinal(dates[1]), toordinal(dates[2]))

NoReports == [k \in ReportKeys |-> NoCache]

\* no call of a calculator is being looked at
NoCalc == [op |-> "none"]

----------------------------------------------------------------------------
(* Requests *)

IdleReq ==
    [pc |-> "idle", op |-> "none", teacher_id |-> "", program |-> SelectProgram,
     current_date |-> 0, current_time |-> 0, entry_seq |-> 0,
     row_number |-> 0, actual_minutes |-> 0, adjusted_hours |-> 0,
     updated |-> <<>>, checked_rows |-> 0, window |-> <<0, 0>>,
     result |-> FALSE, err |-> ""]

\* the handler returns: its locals are gone, the caller keeps what it asked
\* for, the returned bool and the message shown by st.error
Finish(r, result, err) ==
    [IdleReq EXCEPT !.pc = "done", !.op = r.op, !.teacher_id = r.teacher_id,
                    !.program = r.program, !.window = r.window,
                    !.result = result, !.err = err]

Init ==
    /\ sheet = <<>>
    /\ cache = NoCache
    /\ now = FirstInstant
    /\ tz = 0
    /\ req = [s \in Sessions |-> IdleReq]
    /\ started = 0
    /\ report_cache = NoReports
    /\ calc = NoCalc

\* a new request may start; Budget is Unlimited or the number of requests allowed
StartRequest(Budget) ==
    IF Budget = Unlimited
    THEN started' = started
    ELSE started < Budget /\ started' = started + 1

\* rows that clock-ins already past their check are about to append
PendingAppends(s) ==
    Cardinality({o \in Sessions \ {s} : req[o].pc \in {"ci_prepare", "ci_append"}})

\* variant: only the ITS ID is required
missing_input_teacher_only(teacher_id, program) ==
    teacher_id = ""

\* line 893: nothing typed, or the placeholder of the program selectbox chosen
missing_input(teacher_id, program) ==
    teacher_id = "" \/ program = SelectProgram

\* handle_clock_in, lines 890-907: validation and the open-session check
handle_clock_in_check(s, E) ==
    /\ req[s].pc \in {"idle", "done"}
    /\ Len(sheet) + PendingAppends(s) < MaxRows
    /\ StartRequest(E.budget)
    /\ \E teacher_id \in E.teachers, program \in E.programs,
          okT \in E.outcomes, okR \in E.outcomes :
         LET r == [IdleReq EXCEPT !.op = "clock_in", !.teacher_id = teacher_id,
                                  !.program = program]
             rd == read_sheet_to_df(cache, sheet, okR)
             chk == check_active_session(rd.df, teacher_id, ServerDate)
         IN  IF missing_input(teacher_id, program)
             THEN /\ req' = [req EXCEPT ![s] = Finish(r, FALSE, "MissingInput")]
                  /\ cache' = cache
             ELSE IF ~ get_teacher_info(teacher_id, okT)
             THEN /\ req' = [req EXCEPT ![s] = Finish(r, FALSE, "UnknownWorker")]
                  /\ cache' = cache
             ELSE /\ cache' = rd.cache
                  /\ req' = [req EXCEPT ![s] =
                        IF chk.has_active
                        THEN Finish(r, FALSE, "AlreadyClockedIn")
                        ELSE [r EXCEPT !.pc = "ci_prepare", !.checked_rows = Len(sheet)]]
    /\ UNCHANGED <<sheet, now, tz, report_cache, calc>>

\* handle_clock_in, lines 909-923: the new entry
handle_clock_in_prepare(s, E) ==
    /\ req[s].pc = "ci_prepare"
    /\ \E okR \in E.outcomes :
         LET rd == read_sheet_to_df(cache, sheet, okR)
             timesheet_df == rd.df
         IN  /\ cache' = rd.cache
             /\ req' = [req EXCEPT ![s] =
                   [@ EXCEPT !.pc = "ci_append",
                             !.current_date = ServerDate,
                             !.current_time = get_london_time.time,
                             !.entry_seq = IF timesheet_df.rows # <<>>
                                           THEN Len(timesheet_df.rows) + 1 ELSE 1]]
    /\ UNCHANGED <<sheet, now, tz, started, report_cache, calc>>

new_entry(r) ==
    [seq |-> r.entry_seq, teacher_id |-> r.teacher_id, date |-> r.current_date,
     clock_in |-> r.current_time, clock_out |-> NoClockOut,
     actual_hours |-> 0, adjusted_hours |-> 0, program |-> r.program]

\* handle_clock_in, lines 925-931: the append
handle_clock_in_append(s, E) ==
    /\ req[s].pc = "ci_append"
    /\ \E ok \in E.outcomes :
         /\ sheet' = append_to_sheet(sheet, new_entry(req[s]), ok)
         /\ cache' = ClearCache(cache, ok)
         /\ req' = [req EXCEPT ![s] =
               Finish(@, ok, IF ok THEN "" ELSE "StoreUnavailable")]
    /\ UNCHANGED <<now, tz, started, report_cache, calc>>

\* variant: the "Select Program" sentinel is compared like any program
program_mismatch_no_sentinel(program, active_program) ==
    program # active_program

\* line 984
program_mismatch(program, active_program) ==
    program # SelectProgram /\ program # active_program

\* handle_clock_out, lines 942-959: validation and the open-session check
handle_clock_out_check(s, E) ==
    /\ req[s].pc \in {"idle", "done"}
    /\ StartRequest(E.budget)
    /\ \E teacher_id \in E.teachers, program \in E.programs,
          okT \in E.outcomes, okR \in E.outcomes :
         LET r == [IdleReq EXCEPT !.op = "clock_out", !.teacher_id = teacher_id,
                                  !.program = program]
             rd == read_sheet_to_df(cache, sheet, okR)
             chk == check_active_session(rd.df, teacher_id, ServerDate)
         IN  IF teacher_id = ""
             THEN /\ req' = [req EXCEPT ![s] = Finish(r, FALSE, "MissingInput")]
                  /\ cache' = cache
             ELSE IF ~ get_teacher_info(teacher_id, okT)
             THEN /\ req' = [req EXCEPT ![s] = Finish(r, FALSE, "UnknownWorker")]
                  /\ cache' = cache
             ELSE /\ cache' = rd.cache
                  /\ req' = [req EXCEPT ![s] =
                        IF ~ chk.has_active
                        THEN Finish(r, FALSE, "NoOpenSession")
                        ELSE [r EXCEPT !.pc = "co_locate"]]
    /\ UNCHANGED <<sheet, now, tz, report_cache, calc>>

\* handle_clock_out, lines 961-1000: the open row and its hours
handle_clock_out_locate(s, E) ==
    /\ req[s].pc = "co_locate"
    /\ \E okR \in E.outcomes :
         LET rd == read_sheet_to_df(cache, sheet, okR)
             timesheet_df == rd.df
             current_date == ServerDate
             current_time == get_london_time
             active_sessions == OpenRows(timesheet_df.rows, req[s].teacher_id, current_date)
             index == Min(active_sessions)
             active_row == timesheet_df.rows[index]
             row_number == (index - 1) + 2
             clock_in_time == current_date * MinutesPerDay + active_row.clock_in
             current_time_naive == current_time.date * MinutesPerDay + current_time.time
             actual_minutes == current_time_naive - clock_in_time
         IN  /\ cache' = rd.cache
             /\ req' = [req EXCEPT ![s] =
                   IF ~ timesheet_df.has_columns
                   THEN Finish(@, FALSE, "Error")
                   ELSE IF active_sessions = {}
                   THEN Finish(@, FALSE, "NoOpenSession")
                   ELSE IF program_mismatch(req[s].program, active_row.program)
                   THEN Finish(@, FALSE, "ProgramMismatch")
                   ELSE [@ EXCEPT !.pc = "co_update_E",
                                  !.current_date = current_date,
                                  !.current_time = current_time.time,
                                  !.row_number = row_number,
                                  !.actual_minutes = actual_minutes,
                                  !.adjusted_hours =
                                      adjust_hours(actual_minutes, active_row.program)]]
    /\ UNCHANGED <<sheet, now, tz, started, report_cache, calc>>

\* all([...]) of line 1003: every element of the list is evaluated
all(flags) == \A i \in 1..Len(flags) : flags[i]

\* one update_sheet_cell call of lines 1004-1018
UpdateStep(s, E, pc, col, value, next) ==
    /\ req[s].pc = pc
    /\ \E ok \in E.outcomes :
         LET updated == Append(req[s].updated, ok)
         IN  /\ sheet' = update_sheet_cell(sheet, req[s].row_number, col, value, ok)
             /\ cache' = ClearCache(cache, ok)
             /\ req' = [req EXCEPT ![s] =
                   IF next = "done"
                   THEN Finish(@, all(updated),
                               IF all(updated) THEN "" ELSE "StoreUnavailable")
                   ELSE [@ EXCEPT !.pc = next, !.updated = updated]]
    /\ UNCHANGED <<now, tz, started, report_cache, calc>>

handle_clock_out_update_E(s, E) ==
    UpdateStep(s, E, "co_update_E", "clock_out", req[s].current_time, "co_update_F")

handle_clock_out_update_F(s, E) ==
    UpdateStep(s, E, "co_update_F", "actual_hours",
               RoundHours(req[s].actual_minutes), "co_update_G")

handle_clock_out_update_G(s, E) ==
    UpdateStep(s, E, "co_update_G", "adjusted_hours", req[s].adjusted_hours, "done")

\* variant: no min_value
date_input_accepts_any(value, min_value) ==
    TRUE

\* lines 1226-1231: st.date_input(value=..., min_value=custom_start) raises for
\* a value below min_value
date_input_accepts(value, min_value) ==
    value >= min_value

\* lines 1324 and 1348: the program totals of the entries shown
shown_totals(entries) ==
    [op |-> "calculate_program_totals", entries |-> entries.rows, done |-> TRUE,
     totals |-> calculate_program_totals(entries.rows)]

\* show_history_page, lines 1097-1100, 1249-1253 and 1324-1348: the entries of
\* the teacher in the chosen date range, through the cache of
\* get_entries_by_date_range, and their program totals
show_history_page(s, E) ==
    /\ req[s].pc \in {"idle", "done"}
    /\ StartRequest(E.budget)
    /\ \E teacher_id \in E.teachers \cap Teachers, window \in RangeInputs,
          okT \in E.outcomes, okR \in E.outcomes :
         LET r == [IdleReq EXCEPT !.op = "history", !.teacher_id = teacher_id,
                                  !.window = window]
             k == <<teacher_id, window>>
             rd == read_sheet_to_df(cache, sheet, okR)
             entries == get_entries_by_date_range(rd.df, teacher_id, window[1], window[2])
         IN  IF ~ get_teacher_info(teacher_id, okT)
             THEN /\ req' = [req EXCEPT ![s] = Finish(r, FALSE, "UnknownWorker")]
                  /\ UNCHANGED <<cache, report_cache, calc>>
             ELSE IF ~ date_input_accepts(window[2], window[1])
             THEN /\ req' = [req EXCEPT ![s] = Finish(r, FALSE, "Error")]
                  /\ UNCHANGED <<cache, report_cache, calc>>
             ELSE IF report_cache[k].valid
             THEN /\ req' = [req EXCEPT ![s] = Finish(r, TRUE, "")]
                  /\ calc' = shown_totals(report_cache[k].df)
                  /\ UNCHANGED <<cache, report_cache>>
             ELSE /\ req' = [req EXCEPT ![s] = Finish(r, TRUE, "")]
                  /\ cache' = rd.cache
                  /\ report_cache' = [report_cache EXCEPT ![k] = [valid |-> TRUE, df |-> entries]]
                  /\ calc' = shown_totals(entries)
    /\ UNCHANGED <<sheet, now, tz>>

\* the ttl of a cached date-range query runs out
ExpireReportCache ==
    /\ \E k \in ReportKeys : /\ report_cache[k].valid
                             /\ report_cache' = [report_cache EXCEPT ![k] = NoCache]
    /\ UNCHANGED <<sheet, cache, now, tz, req, started, calc>>

\* time passes
Tick ==
    /\ \E t \in Instants : t > now /\ now' = t
    /\ UNCHANGED <<sheet, cache, tz, req, started, report_cache, calc>>

\* the ttl of the cached read runs out
ExpireCache ==
    /\ cache.valid
    /\ cache' = NoCache
    /\ UNCHANGED <<sheet, now, tz, req, started, report_cache, calc>>

StoreUp == {TRUE}
StoreFlaky == {TRUE, FALSE}

\* what a specification lets happen: the outcomes of the store's calls, the
\* number of requests, and the values typed into the form
Sequential ==
    [outcomes |-> StoreUp, budget |-> Unlimited,
     teachers |-> TeacherInputs, programs |-> ProgramInputs]
Concurrent ==
    [outcomes |-> StoreUp, budget |-> MaxRequests,
     teachers |-> Teachers, programs |-> {SelectProgram, "Rawdat"}]
Flaky ==
    [outcomes |-> StoreFlaky, budget |-> MaxRequests,
     teachers |-> Teachers, programs |-> ProgramInputs]
Reporting ==
    [outcomes |-> StoreUp, budget |-> MaxRequests + 1,
     teachers |-> {"t1"}, programs |-> {SelectProgram, "Rawdat"}]

\* requests handled one at a time, the store available
Next ==
    \/ handle_clock_in_check(MainSession, Sequential)
    \/ handle_clock_in_prepare(MainSession, Sequential)
    \/ handle_clock_in_append(MainSession, Sequential)
    \/ handle_clock_out_check(MainSession, Sequential)
    \/ handle_clock_out_locate(MainSession, Sequential)
    \/ handle_clock_out_update_E(MainSession, Sequential)
    \/ handle_clock_out_update_F(MainSession, Sequential)
    \/ handle_clock_out_update_G(MainSession, Sequential)
    \/ Tick
    \/ ExpireCache

Spec == Init /\ [][Next]_vars

\* overlapping requests of two browser sessions, the store available
NextConc ==
    \/ \E s \in Sessions : handle_clock_in_check(s, Concurrent)
    \/ \E s \in Sessions : handle_clock_in_prepare(s, Concurrent)
    \/ \E s \in Sessions : handle_clock_in_append(s, Concurrent)
    \/ \E s \in Sessions : handle_clock_out_check(s, Concurrent)
    \/ \E s \in Sessions : handle_clock_out_locate(s, Concurrent)
    \/ \E s \in Sessions : handle_clock_out_update_E(s, Concurrent)
    \/ \E s \in Sessions : handle_clock_out_update_F(s, Concurrent)
    \/ \E s \in Sessions : handle_clock_out_update_G(s, Concurrent)
    \/ Tick
    \/ ExpireCache

SpecConc == Init /\ [][NextConc]_vars

\* requests handled one at a time, every call of the store may fail
NextFail ==
    \/ handle_clock_in_check(MainSession, Flaky)
    \/ handle_clock_in_prepare(MainSession, Flaky)
    \/ handle_clock_in_append(MainSession, Flaky)
    \/ handle_clock_out_check(MainSession, Flaky)
    \/ handle_clock_out_locate(MainSession, Flaky)
    \/ handle_clock_out_update_E(MainSession, Flaky)
    \/ handle_clock_out_update_F(MainSession, Flaky)
    \/ handle_clock_out_update_G(MainSession, Flaky)
    \/ Tick
    \/ ExpireCache

SpecFail == Init /\ [][NextFail]_vars

\* clock-ins, clock-outs and history pages of one teacher, one request at a
\* time, every call of the store may fail
FlakyReporting ==
    [outcomes |-> StoreFlaky, budget |-> MaxRequests,
     teachers |-> {"t1"}, programs |-> {"Rawdat"}]

NextFailReport ==
    \/ handle_clock_in_check(MainSession, FlakyReporting)
    \/ handle_clock_in_prepare(MainSession, FlakyReporting)
    \/ handle_clock_in_append(MainSession, FlakyReporting)
    \/ handle_clock_out_check(MainSession, FlakyReporting)
    \/ handle_clock_out_locate(MainSession, FlakyReporting)
    \/ handle_clock_out_update_E(MainSession, FlakyReporting)
    \/ handle_clock_out_update_F(MainSession, FlakyReporting)
    \/ handle_clock_out_update_G(MainSession, FlakyReporting)
    \/ show_history_page(MainSession, FlakyReporting)
    \/ Tick
    \/ ExpireCache
    \/ ExpireReportCache

SpecFailReport == Init /\ [][NextFailReport]_vars

\* clock-ins, clock-outs and history pages, one request at a time, the store
\* available
NextReport ==
    \/ handle_clock_in_check(MainSession, Reporting)
    \/ handle_clock_in_prepare(MainSession, Reporting)
    \/ handle_clock_in_append(MainSession, Reporting)
    \/ handle_clock_out_check(MainSession, Reporting)
    \/ handle_clock_out_locate(MainSession, Reporting)
    \/ handle_clock_out_update_E(MainSession, Reporting)
    \/ handle_clock_out_update_F(MainSession, Reporting)
    \/ handle_clock_out_update_G(MainSession, Reporting)
    \/ show_history_page(MainSession, Reporting)
    \/ Tick
    \/ ExpireCache
    \/ ExpireReportCache

SpecReport == Init /\ [][NextReport]_vars

\* adjust_hours alone: one call with any number of minutes and any program,
\* a program missing from the cap table included
UnknownProgram == "Other"

InitAdjust ==
    /\ sheet = <<>>
    /\ cache = NoCache
    /\ now = FirstInstant
    /\ tz = 0
    /\ req = [s \in Sessions |-> IdleReq]
    /\ started = 0
    /\ report_cache = NoReports
    /\ calc \in [op : {"adjust_hours"}, actual_minutes : ActualMinutes,
                 program : Programs \cup {UnknownProgram},
                 done : {FALSE}, raised : {FALSE}, result : {0}]

\* lines 531-549: the function returns a number on every path and raises nothing
call_adjust_hours ==
    /\ calc.op = "adjust_hours"
    /\ ~ calc.done
    /\ calc' = [calc EXCEPT !.done = TRUE,
                            !.raised = FALSE,
                            !.result = adjust_hours(calc.actual_minutes, calc.program)]
    /\ UNCHANGED <<sheet, cache, now, tz, req, started, report_cache>>

NextAdjust == call_adjust_hours

SpecAdjust == InitAdjust /\ [][NextAdjust]_vars

\* calculate_payroll_periods alone: one call on any day, for any number of periods
InitPayroll ==
    /\ sheet = <<>>
    /\ cache = NoCache
    /\ now = FirstInstant
    /\ tz = 0
    /\ req = [s \in Sessions |-> IdleReq]
    /\ started = 0
    /\ report_cache = NoReports
    /\ calc \in [op : {"calculate_payroll_periods"}, current_date : Todays,
                 num_periods : 0..MaxPeriods, done : {FALSE}, periods : {<<>>}]

call_calculate_payroll_periods ==
    /\ calc.op = "calculate_payroll_periods"
    /\ ~ calc.done
    /\ calc' = [calc EXCEPT !.done = TRUE,
                            !.periods = calculate_payroll_periods(calc.current_date,
                                                                  calc.num_periods)]
    /\ UNCHANGED <<sheet, cache, now, tz, req, started, report_cache>>

NextPayroll == call_calculate_payroll_periods

SpecPayroll == InitPayroll /\ [][NextPayroll]_vars

\* an entry of a frame handed to calculate_program_totals: closed with its
\* adjusted hours, or open with none
entry(program, closed, adjusted_hours) ==
    [seq |-> 1, teacher_id |-> "t1", date |-> 1, clock_in |-> 9 * MinutesPerHour,
     clock_out |-> IF closed THEN 13 * MinutesPerHour ELSE NoClockOut,
     actual_hours |-> IF closed THEN 400 ELSE 0,
     adjusted_hours |-> adjusted_hours, program |-> program]

EntryChoices ==
    {entry("Rawdat", TRUE, 200), entry("Rawdat", FALSE, 0),
     entry("Rawdat + Admin Work", TRUE, 150),
     entry("Sigaar", TRUE, 150), entry("Sigaar", FALSE, 0),
     entry("Kibaar", TRUE, 150),
     entry("Camp", TRUE, 350), entry("Camp", TRUE, 400)}

Frames == UNION {[1..n -> EntryChoices] : n \in 0..MaxEntries}

\* calculate_program_totals alone: one call on any frame of entries
InitTotals ==
    /\ sheet = <<>>
    /\ cache = NoCache
    /\ now = FirstInstant
    /\ tz = 0
    /\ req = [s \in Sessions |-> IdleReq]
    /\ started = 0
    /\ report_cache = NoReports
    /\ calc \in [op : {"calculate_program_totals"}, entries : Frames,
                 done : {FALSE}, totals : {<<>>}]

call_calculate_program_totals ==
    /\ calc.op = "calculate_program_totals"
    /\ ~ calc.done
    /\ calc' = [calc EXCEPT !.done = TRUE,
                            !.totals = calculate_program_totals(calc.entries)]
    /\ UNCHANGED <<sheet, cache, now, tz, req, started, report_cache>>

NextTotals == call_calculate_program_totals

SpecTotals == InitTotals /\ [][NextTotals]_vars

\* the years whose months are looked at: a century that is no leap year, one
\* that is, a leap year and a common year
MonthYears == {1900, 2000, 2024, 2025}

\* entries of two teachers dated around the ends of a month
MonthRowChoices(year, month) ==
    LET first == toordinal(<<year, month, 1>>)
        last == toordinal(<<year, month, DaysInMonth(year, month)>>)
    IN  {[entry("Rawdat", TRUE, 200) EXCEPT !.teacher_id = t, !.date = d] :
            t \in Teachers, d \in {first - 1, first, last - 1, last, last + 1}}

\* get_monthly_entries alone: one call for any month on a frame of entries
InitMonth ==
    /\ sheet = <<>>
    /\ cache = NoCache
    /\ now = FirstInstant
    /\ tz = 0
    /\ req = [s \in Sessions |-> IdleReq]
    /\ started = 0
    /\ report_cache = NoReports
    /\ \E year \in MonthYears, month \in 1..12, n \in 0..MaxRows :
         calc \in [op : {"get_monthly_entries"}, teacher_id : {"t1"},
                   year : {year}, month : {month},
                   rows : [1..n -> MonthRowChoices(year, month)],
                   done : {FALSE}, dates : {<<>>}, entries : {<<>>}]

call_get_monthly_entries ==
    /\ calc.op = "get_monthly_entries"
    /\ ~ calc.done
    /\ calc' = [calc EXCEPT
                  !.done = TRUE,
                  !.dates = get_month_start_end_dates(calc.year, calc.month),
                  !.entries = get_monthly_entries([has_columns |-> TRUE, rows |-> calc.rows],
                                                  calc.teacher_id, calc.year, calc.month).rows]
    /\ UNCHANGED <<sheet, cache, now, tz, req, started, report_cache>>

NextMonth == call_get_monthly_entries

SpecMonth == InitMonth /\ [][NextMonth]_vars

\* the server's zone differs from London's
InitZones ==
    /\ sheet = <<>>
    /\ cache = NoCache
    /\ now = FirstInstant
    /\ tz \in ServerOffsets
    /\ req = [s \in Sessions |-> IdleReq]
    /\ started = 0
    /\ report_cache = NoReports
    /\ calc = NoCalc

SpecZones == InitZones /\ [][Next]_vars

----------------------------------------------------------------------------
(* Steps of a request, as seen on the variables *)

\* session s starts a clock-in (it either returns at once or passes the check)
StartsClockIn(s) ==
    /\ req[s].pc \in {"idle", "done"}
    /\ req'[s] # req[s]
    /\ req'[s].op = "clock_in"

StartsClockOut(s) ==
    /\ req[s].pc \in {"idle", "done"}
    /\ req'[s] # req[s]
    /\ req'[s].op = "clock_out"

LocateStep(s) == req[s].pc = "co_locate" /\ req'[s].pc # "co_locate"

AppendStep(s) == req[s].pc = "ci_append" /\ req'[s].pc = "done"

LastUpdateStep(s) == req[s].pc = "co_update_G" /\ req'[s].pc = "done"

IsOpen(row) == row.clock_out = NoClockOut

PrepareStep(s) == req[s].pc = "ci_prepare" /\ req'[s].pc = "ci_append"

\* a step whose read of the ledger failed: read_sheet_to_df went to the store
\* (nothing cached) and came back without the rows of the sheet
FailedRead ==
    /\ ~ cache.valid
    /\ cache'.valid
    /\ cache'.df.rows # sheet

StartsHistory(s) ==
    /\ req[s].pc \in {"idle", "done"}
    /\ req'[s] # req[s]
    /\ req'[s].op = "history"
    /\ req'[s].result

\* the clock-out found its row and goes on to the updates
LocatedStep(s) == req[s].pc = "co_locate" /\ req'[s].pc = "co_update_E"

----------------------------------------------------------------------------
(* Claims *)

\* C1: with requests handled one at a time and the store available, the
\* ledger never holds two open entries for the same (worker id, date).
C1_SingleOpenSession ==
    \A i \in 1..Len(sheet), j \in 1..Len(sheet) :
        (/\ i # j
         /\ sheet[i].teacher_id = sheet[j].teacher_id
         /\ sheet[i].date = sheet[j].date
         /\ IsOpen(sheet[i]))
        => ~ IsOpen(sheet[j])

\* a worker has clocked in again on a date on which an earlier session was closed
C1_Witness ==
    \E i \in 1..Len(sheet), j \in 1..Len(sheet) :
        /\ i < j
        /\ sheet[i].teacher_id = sheet[j].teacher_id
        /\ sheet[i].date = sheet[j].date
        /\ ~ IsOpen(sheet[i])
        /\ IsOpen(sheet[j])

\* C2: a clock-in that appends after another clock-in of the same worker and
\* date has appended since its own check (both checked before either
\* appended) succeeds too, and the ledger then holds two open entries for
\* that (worker id, date).
C2_RacingClockIns ==
    [][\A s \in Sessions :
         LET raced == {i \in (req[s].checked_rows + 1)..Len(sheet) :
                          /\ sheet[i].teacher_id = req[s].teacher_id
                          /\ sheet[i].date = req[s].current_date
                          /\ IsOpen(sheet[i])}
         IN  (AppendStep(s) /\ raced # {})
             => /\ req'[s].result
                /\ Len(sheet') = Len(sheet) + 1
                /\ IsOpen(sheet'[Len(sheet')])
                /\ Cardinality(OpenRows(sheet', req[s].teacher_id, req[s].current_date)) >= 2]_vars

\* two open entries of one worker on one date, both clock-ins having returned
C2_Witness ==
    /\ \A s \in Sessions : req[s].pc = "done" /\ req[s].op = "clock_in" /\ req[s].result
    /\ \E i \in 1..Len(sheet), j \in 1..Len(sheet) :
          /\ i < j
          /\ sheet[i].teacher_id = sheet[j].teacher_id
          /\ sheet[i].date = sheet[j].date
          /\ IsOpen(sheet[i])
          /\ IsOpen(sheet[j])

\* C3: a clock-in of a worker who has an open entry dated today fails, for
\* every program chosen, with the active-session message when a program was
\* chosen, and the sheet is left as it was.
C3_AlreadyClockedIn ==
    [][\A s \in Sessions :
         (/\ StartsClockIn(s)
          /\ req'[s].teacher_id \in Teachers
          /\ OpenRows(sheet, req'[s].teacher_id, ServerDate) # {})
         => /\ req'[s].pc = "done"
            /\ ~ req'[s].result
            /\ req'[s].program \in Programs => req'[s].err = "AlreadyClockedIn"
            /\ sheet' = sheet]_vars

\* a clock-in was refused while the worker's entry of today is open
C3_Witness ==
    \E s \in Sessions :
        /\ req[s].pc = "done"
        /\ req[s].op = "clock_in"
        /\ req[s].err = "AlreadyClockedIn"
        /\ OpenRows(sheet, req[s].teacher_id, ServerDate) # {}

\* C4: a clock-out of a worker who has no open entry dated today fails with
\* the no-active-clock-in message and leaves every row as it was.
C4_NoOpenSession ==
    [][\A s \in Sessions :
         (/\ StartsClockOut(s)
          /\ req'[s].teacher_id \in Teachers
          /\ OpenRows(sheet, req'[s].teacher_id, ServerDate) = {})
         => /\ req'[s].pc = "done"
            /\ ~ req'[s].result
            /\ req'[s].err = "NoOpenSession"
            /\ sheet' = sheet]_vars

\* a clock-out was refused for a worker whose entry of today is already closed
C4_Witness ==
    \E s \in Sessions :
        /\ req[s].pc = "done"
        /\ req[s].op = "clock_out"
        /\ req[s].err = "NoOpenSession"
        /\ \E i \in 1..Len(sheet) : /\ sheet[i].teacher_id = req[s].teacher_id
                                    /\ sheet[i].date = ServerDate
                                    /\ ~ IsOpen(sheet[i])

\* C5: a clock-out with a chosen program that differs from the open entry's
\* program fails with the mismatch message and leaves the sheet as it was; a
\* clock-out with "Select Program" goes on to the entry whatever its program
\* is and closes it with the hours adjusted for the stored program.
C5_ProgramMismatch ==
    [][\A s \in Sessions :
         LET open == OpenRows(sheet, req[s].teacher_id, ServerDate)
         IN  /\ (LocateStep(s) /\ open # {} /\ req[s].program # SelectProgram
                   /\ req[s].program # sheet[Min(open)].program)
                => /\ req'[s].pc = "done"
                   /\ ~ req'[s].result
                   /\ req'[s].err = "ProgramMismatch"
                   /\ sheet' = sheet
             /\ (LocateStep(s) /\ open # {} /\ req[s].program = SelectProgram)
                => /\ req'[s].pc = "co_update_E"
                   /\ req'[s].row_number = Min(open) + 1
             /\ (LastUpdateStep(s) /\ req[s].program = SelectProgram)
                => /\ req'[s].result
                   /\ ~ IsOpen(sheet'[req[s].row_number - 1])
                   /\ sheet'[req[s].row_number - 1].adjusted_hours =
                        adjust_hours(req[s].actual_minutes,
                                     sheet'[req[s].row_number - 1].program)]_vars

\* a clock-out with "Select Program" has returned success and an entry of
\* the program "Rawdat + Admin Work" is closed
C5_Witness ==
    \E s \in Sessions :
        /\ req[s].pc = "done"
        /\ req[s].op = "clock_out"
        /\ req[s].program = SelectProgram
        /\ req[s].result
        /\ \E i \in 1..Len(sheet) : ~ IsOpen(sheet[i]) /\ sheet[i].program = "Rawdat + Admin Work"

\* C6: the clock-out write is all or nothing: when clock_out returns after
\* its three updates, either it reports success and the entry carries the
\* clock-out time, the actual hours and the adjusted hours, or it reports
\* failure and the entry carries none of them.
C6_AllOrNothing ==
    [][\A s \in Sessions :
         LastUpdateStep(s)
         => LET row == sheet'[req[s].row_number - 1]
            IN  \/ /\ req'[s].result
                   /\ row.clock_out = req[s].current_time
                   /\ row.actual_hours = RoundHours(req[s].actual_minutes)
                   /\ row.adjusted_hours = req[s].adjusted_hours
                \/ /\ ~ req'[s].result
                   /\ IsOpen(row)
                   /\ row.actual_hours = 0
                   /\ row.adjusted_hours = 0]_vars

\* C7: no row is ever removed, a new row is an open one appended by a
\* clock-in, and a row changes only under the clock-out that closes it: the
\* clock-out time is written to an open entry, the hours to the entry this
\* clock-out has just closed; a closed entry is written by no other request.
C7_ClosedIsTerminal ==
    [][/\ Len(sheet') >= Len(sheet)
       /\ \A i \in 1..Len(sheet) :
            sheet'[i] # sheet[i]
            => \E s \in Sessions :
                 /\ req'[s] # req[s]
                 /\ req[s].row_number = i + 1
                 /\ \/ req[s].pc = "co_update_E" /\ IsOpen(sheet[i])
                    \/ /\ req[s].pc \in {"co_update_F", "co_update_G"}
                       /\ sheet[i].clock_out = req[s].current_time
                       /\ sheet[i].adjusted_hours = 0]_vars

\* C8: in every reachable ledger state an open entry has actual hours 0 and
\* adjusted hours 0.
C8_OpenHasNoHours ==
    \A i \in 1..Len(sheet) :
        IsOpen(sheet[i]) => sheet[i].actual_hours = 0 /\ sheet[i].adjusted_hours = 0

\* C9: every closed entry stores adjusted hours between 0 and the cap of its
\* stored program.
C9_AdjustedWithinCap ==
    \A i \in 1..Len(sheet) :
        ~ IsOpen(sheet[i])
        => /\ 0 <= sheet[i].adjusted_hours
           /\ sheet[i].adjusted_hours <= get_program_cap(sheet[i].program)

\* C10: when the ledger holds more than one open entry of the worker dated
\* today, a request of that worker is answered with a multiple-open-sessions
\* failure of its own and no row is written.
C10_MultipleOpenSessions ==
    [][\A s \in Sessions :
         (/\ StartsClockIn(s) \/ StartsClockOut(s)
          /\ req'[s].teacher_id \in Teachers
          /\ Cardinality(OpenRows(sheet, req'[s].teacher_id, ServerDate)) > 1)
         => /\ req'[s].pc = "done"
            /\ ~ req'[s].result
            /\ req'[s].err = "MultipleOpenSessions"
            /\ sheet' = sheet]_vars

\* C11: a clock-out called on the day after the clock-in (program matching
\* or "Select Program", no newer open entry) passes the open-session check,
\* locates the entry dated the day before and closes it, computing the hours
\* on the stored date and leaving the stored date as it is.
C11_ClockOutNextDay ==
    [][\A s \in Sessions :
         /\ (/\ StartsClockOut(s)
             /\ req'[s].teacher_id \in Teachers
             /\ OpenRows(sheet, req'[s].teacher_id, ServerDate) = {}
             /\ \E i \in OpenRows(sheet, req'[s].teacher_id, ServerDate - 1) :
                   req'[s].program \in {SelectProgram, sheet[i].program})
            => req'[s].pc = "co_locate"
         /\ LastUpdateStep(s)
            => /\ sheet'[req[s].row_number - 1].date = sheet[req[s].row_number - 1].date
               /\ ~ IsOpen(sheet'[req[s].row_number - 1])]_vars

\* C12: the date and the time of day stored by a clock-in, and the date and
\* the time of day a clock-out computes with, are read from one clock: taken
\* together they are the current instant of London or of the server's zone.
C12_SingleClock ==
    [][\A s \in Sessions :
         (PrepareStep(s) \/ LocatedStep(s))
         => req'[s].current_date * MinutesPerDay + req'[s].current_time \in {now, now + tz}]_vars

\* C13: every read of the ledger reflects the writes made before it: the
\* frame a handler reads through read_sheet_to_df holds the rows of the sheet,
\* and the entries the history page gets for a teacher and a date range are
\* the teacher's rows of the sheet in that range.
C13_ReadsSeeWrites ==
    [][/\ cache'.valid => cache'.df.rows = sheet
       /\ \A s \in Sessions :
            StartsHistory(s)
            => report_cache'[<<req'[s].teacher_id, req'[s].window>>].df.rows =
                 SelectSeq(sheet, LAMBDA row : InRange(row, req'[s].teacher_id,
                                                       req'[s].window[1], req'[s].window[2]))]_vars

\* C14: a clock-in or clock-out whose read of the ledger fails ends at once
\* with the failure StoreUnavailable and writes nothing; a clock-in whose
\* append fails ends with a failure and leaves the ledger unchanged.
C14_StoreFailure ==
    [][\A s \in Sessions :
         /\ (FailedRead /\ req'[s] # req[s])
            => /\ req'[s].pc = "done"
               /\ ~ req'[s].result
               /\ req'[s].err = "StoreUnavailable"
               /\ sheet' = sheet
         /\ (AppendStep(s) /\ req'[s].err = "StoreUnavailable")
            => /\ ~ req'[s].result
               /\ sheet' = sheet]_vars

\* C15: a clock-in whose program is not one of the six enumerated programs
\* fails and appends nothing, so every entry of the ledger carries a program
\* of the enumeration.  (The program comes from the selectbox of lines
\* 1042-1047, whose only other option is the placeholder "Select Program".)
C15_EnumeratedProgram ==
    [][/\ \A s \in Sessions :
            (StartsClockIn(s) /\ req'[s].program \notin Programs)
            => /\ req'[s].pc = "done"
               /\ ~ req'[s].result
               /\ sheet' = sheet
       /\ \A i \in 1..Len(sheet') : sheet'[i].program \in Programs]_vars

\* a known teacher's clock-in with the placeholder program has failed while
\* the ledger holds an entry
C15_Witness ==
    \E s \in Sessions :
        /\ req[s].pc = "done"
        /\ req[s].op = "clock_in"
        /\ req[s].teacher_id \in Teachers
        /\ req[s].program \notin Programs
        /\ ~ req[s].result
        /\ sheet # <<>>

\* the call of adjust_hours has returned
Adjusted == calc.op = "adjust_hours" /\ calc.done

\* more than the cap of the program, a program without an entry in the cap
\* table having the cap 2.0
OverCap ==
    calc.actual_minutes * 100 >
        (IF calc.program \in {"Rawdat + Admin Work"} THEN 250
         ELSE IF calc.program \in {"Mukhayyam", "Camp"} THEN 400
         ELSE 200) * MinutesPerHour

\* C16: for every program, and for a program absent from the cap table with
\* the default cap 2.0, adjust_hours of more than the cap is exactly the cap.
C16_OverCapIsCap ==
    (Adjusted /\ OverCap)
    => calc.result = (IF calc.program \in {"Rawdat + Admin Work"} THEN 250
                      ELSE IF calc.program \in {"Mukhayyam", "Camp"} THEN 400
                      ELSE 200)

\* adjust_hours has returned for 2 h 01 min of a program that is not in the
\* cap table
C16_Witness ==
    /\ Adjusted
    /\ calc.program = UnknownProgram
    /\ calc.actual_minutes = 2 * MinutesPerHour + 1

\* the quarter-hour bucket of a remainder of 0..59 minutes, in hundredths
Bucket(remainder) ==
    IF remainder \in 0..15 THEN 25
    ELSE IF remainder \in 16..30 THEN 50
    ELSE IF remainder \in 31..45 THEN 75
    ELSE 100

\* C17: for 0 <= actual_hours <= cap, adjust_hours is the whole hours plus the
\* bucket of the remaining minutes (0..15 -> 0.25, 16..30 -> 0.50,
\* 31..45 -> 0.75, 46..59 -> 1.00); a whole number of hours is rounded up by
\* a quarter: adjust_hours(1.0, "Sigaar") = 1.25.
C17_FloorPlusBucket ==
    (Adjusted /\ calc.actual_minutes >= 0 /\ ~ OverCap)
    => /\ calc.result = (calc.actual_minutes \div MinutesPerHour) * 100
                            + Bucket(calc.actual_minutes % MinutesPerHour)
       /\ calc.actual_minutes % MinutesPerHour = 0
          => calc.result = (calc.actual_minutes \div MinutesPerHour) * 100 + 25
       /\ (calc.actual_minutes = MinutesPerHour /\ calc.program = "Sigaar")
          => calc.result = 125

\* adjust_hours has returned for exactly one hour of "Sigaar"
C17_Witness ==
    /\ Adjusted
    /\ calc.program = "Sigaar"
    /\ calc.actual_minutes = MinutesPerHour

\* C18: adjust_hours is never applied to a negative actual_hours with a
\* value as its result: a clock-out that computed a negative elapsed time
\* does not go on to the updates, and the adjusted hours a clock-out stores
\* were computed from an elapsed time of at least zero.
C18_NoNegativeHours ==
    [][\A s \in Sessions :
         /\ LocatedStep(s) => req'[s].actual_minutes >= 0
         /\ (LastUpdateStep(s) /\ sheet' # sheet)
            => /\ req[s].actual_minutes >= 0
               /\ sheet'[req[s].row_number - 1].adjusted_hours >= 0]_vars

\* the call of calculate_payroll_periods has returned
Calculated == calc.op = "calculate_payroll_periods" /\ calc.done

\* months counted from year 0, and the <<year, month>> of such a count
MonthIndex(year, month) == year * 12 + (month - 1)

MonthOf(index) == <<index \div 12, (index % 12) + 1>>

\* the count of the month in which the current period of a day ends
CurrentEndIndex(today) ==
    MonthIndex(today[1], today[2]) + (IF today[3] >= 20 THEN 1 ELSE 0)

\* C19: the first payroll period ends on the 19th of today's month when the
\* day of the month is below 20, and on the 19th of the following month
\* (January of the next year in December) from the 20th on; 25 March gives
\* 19 April and 5 March gives 19 March.
C19_CurrentPeriodEnd ==
    (Calculated /\ calc.num_periods >= 1)
    => LET today == calc.current_date
           end_date == calc.periods[1].end_date
       IN  /\ end_date[3] = 19
           /\ <<end_date[1], end_date[2]>> = MonthOf(CurrentEndIndex(today))
           /\ today[3] < 20 => <<end_date[1], end_date[2]>> = <<today[1], today[2]>>
           /\ (today[3] >= 20 /\ today[2] = 12) => <<end_date[1], end_date[2]>> = <<today[1] + 1, 1>>
           /\ (today[2] = 3 /\ today[3] = 25) => end_date = <<today[1], 4, 19>>
           /\ (today[2] = 3 /\ today[3] = 5) => end_date = <<today[1], 3, 19>>

\* the periods of 20 December 2024 have been calculated
C19_Witness ==
    /\ Calculated
    /\ calc.num_periods >= 1
    /\ calc.current_date = <<2024, 12, 20>>

\* C20: calculate_payroll_periods(n) returns n periods; the k-th (k = 0 the
\* newest) ends on the 19th of the current period's end month stepped back k
\* months, and each starts on the 20th of the month before its end month
\* (December of the year before when it ends in January).
C20_PeriodsStepBack ==
    Calculated
    => /\ Len(calc.periods) = calc.num_periods
       /\ \A k \in 0..(calc.num_periods - 1) :
            LET p == calc.periods[k + 1]
                end_index == CurrentEndIndex(calc.current_date) - k
            IN  /\ p.end_date = <<MonthOf(end_index)[1], MonthOf(end_index)[2], 19>>
                /\ p.start_date = <<MonthOf(end_index - 1)[1], MonthOf(end_index - 1)[2], 20>>
                /\ p.end_date[2] = 1
                   => p.start_date = <<p.end_date[1] - 1, 12, 20>>

\* three periods of 5 February 2025 have been calculated: the second ends in
\* January 2025 and starts in December 2024
C20_Witness ==
    /\ Calculated
    /\ calc.num_periods = 3
    /\ calc.current_date = <<2025, 2, 5>>
    /\ calc.periods[2].end_date = <<2025, 1, 19>>
    /\ calc.periods[2].start_date = <<2024, 12, 20>>

\* the call of calculate_program_totals has returned
Totaled == calc.op = "calculate_program_totals" /\ calc.done

\* the entries of a frame that are closed
ClosedEntries(entries) == SelectSeq(entries, LAMBDA row : ~ IsOpen(row))

\* C21: the program totals depend on the closed entries only: the mapping
\* of a frame, totals and keys, is the mapping of the frame without its open
\* entries.
C21_OnlyClosedEntries ==
    Totaled => calc.totals = calculate_program_totals(ClosedEntries(calc.entries))

\* the entries of a frame that are closed and of one of the two Rawdat programs
ClosedRawdat(entries) ==
    SelectSeq(entries, LAMBDA row : ~ IsOpen(row)
                                    /\ row.program \in {"Rawdat", "Rawdat + Admin Work"})

\* the positions of a label among the items of a mapping
ItemsOf(totals, label) == {i \in 1..Len(totals) : totals[i].program = label}

\* C22: "Rawdat" and "Rawdat + Admin Work" are never keys of the program
\* totals; when the frame has closed entries of either, the totals have the
\* single key "Rawdat & Rawdat + Admin Work" with the sum of the adjusted
\* hours of both; every other key has the sum of the adjusted hours of its
\* own closed entries.
C22_RawdatMerged ==
    Totaled
    => /\ ItemsOf(calc.totals, "Rawdat") = {}
       /\ ItemsOf(calc.totals, "Rawdat + Admin Work") = {}
       /\ ClosedRawdat(calc.entries) # <<>>
          => /\ Cardinality(ItemsOf(calc.totals, MergedLabel)) = 1
             /\ \A i \in ItemsOf(calc.totals, MergedLabel) :
                  calc.totals[i].total =
                      group_sum(calc.entries, "Rawdat")
                        + group_sum(calc.entries, "Rawdat + Admin Work")
       /\ \A i \in 1..Len(calc.totals) :
            calc.totals[i].program # MergedLabel
            => calc.totals[i].total =
                 group_sum(ClosedEntries(calc.entries), calc.totals[i].program)

\* a frame with Rawdat 2.0, Rawdat + Admin Work 1.5 and Sigaar 3.0 and no
\* other program
ExampleFrame(entries) ==
    /\ group_sum(entries, "Rawdat") = 200
    /\ group_sum(entries, "Rawdat + Admin Work") = 150
    /\ group_sum(entries, "Sigaar") = 300
    /\ \A i \in 1..Len(entries) :
         entries[i].program \in {"Rawdat", "Rawdat + Admin Work", "Sigaar"}

\* C23: the program totals are ordered by total descending, equal totals by
\* program name ascending, the order being that of the merged totals: for
\* Rawdat 2.0, Rawdat + Admin Work 1.5 and Sigaar 3.0 the merged 3.5 comes
\* before Sigaar 3.0; no entries give an empty mapping.
C23_OrderedTotals ==
    Totaled
    => /\ \A i, j \in 1..Len(calc.totals) :
            i < j => \/ calc.totals[i].total > calc.totals[j].total
                     \/ /\ calc.totals[i].total = calc.totals[j].total
                        /\ label_rank(calc.totals[i].program)
                             < label_rank(calc.totals[j].program)
       /\ ExampleFrame(calc.entries)
          => calc.totals = <<[program |-> MergedLabel, total |-> 350],
                             [program |-> "Sigaar", total |-> 300]>>
       /\ calc.entries = <<>> => calc.totals = <<>>

\* the totals of Rawdat 2.0, Rawdat + Admin Work 1.5 and Sigaar 3.0 have been
\* calculated
C23_Witness ==
    /\ Totaled
    /\ ExampleFrame(calc.entries)
    /\ Len(calc.totals) = 2

\* C24: a custom range whose end date precedes its start date is rejected:
\* the page ends with an error, no entries are queried for it and no totals
\* are calculated.
C24_InvalidRange ==
    [][\A s \in Sessions :
         (/\ req[s].pc \in {"idle", "done"}
          /\ req'[s] # req[s]
          /\ req'[s].op = "history"
          /\ req'[s].window[2] < req'[s].window[1])
         => /\ ~ req'[s].result
            /\ cache' = cache
            /\ report_cache' = report_cache
            /\ calc' = calc]_vars

\* a known teacher's history page for the range from day 2 to day 1 has ended
\* with an error
C24_Witness ==
    \E s \in Sessions :
        /\ req[s].pc = "done"
        /\ req[s].op = "history"
        /\ req[s].window = <<2, 1>>
        /\ req[s].err = "Error"

\* the call of get_monthly_entries has returned
MonthQueried == calc.op = "get_monthly_entries" /\ calc.done

\* the last day of a month by the calendar rule: 30 for April, June,
\* September and November, 28 for February and 29 in leap years (every fourth
\* year, centuries only every 400), 31 otherwise
LastDayOf(year, month) ==
    CASE month \in {4, 6, 9, 11} -> 30
      [] month = 2 /\ year % 4 = 0 /\ (year % 100 # 0 \/ year % 400 = 0) -> 29
      [] month = 2 -> 28
      [] OTHER -> 31

\* C25: the window of a month starts on day 1 and ends on the last day of the
\* month (29 for February exactly in leap years), and the query over it
\* returns exactly the teacher's entries dated from the start to the end,
\* both included.
C25_MonthWindow ==
    MonthQueried
    => LET start_date == calc.dates[1]
           end_date == calc.dates[2]
       IN  /\ start_date = <<calc.year, calc.month, 1>>
           /\ end_date = <<calc.year, calc.month, LastDayOf(calc.year, calc.month)>>
           /\ (end_date[3] = 29)
                <=> (calc.month = 2 /\ calc.year \in {2000, 2024})
           /\ calc.entries =
                SelectSeq(calc.rows,
                          LAMBDA row : /\ row.teacher_id = calc.teacher_id
                                       /\ toordinal(start_date) <= row.date
                                       /\ row.date <= toordinal(end_date))
           /\ \A i \in 1..Len(calc.rows) :
                (/\ calc.rows[i].teacher_id = calc.teacher_id
                 /\ calc.rows[i].date \in {toordinal(start_date), toordinal(end_date)})
                => \E j \in 1..Len(calc.entries) : calc.entries[j] = calc.rows[i]

\* the entries of February 2024 have been queried on a frame with an entry of
\* the teacher dated 29 February, which is returned
C25_Witness ==
    /\ MonthQueried
    /\ calc.year = 2024
    /\ calc.month = 2
    /\ calc.dates[2] = <<2024, 2, 29>>
    /\ \E j \in 1..Len(calc.entries) : calc.entries[j].date = toordinal(<<2024, 2, 29>>)

\* the fields of an entry that a clock-out does not write
Identity(row) ==
    <<row.seq, row.teacher_id, row.date, row.clock_in, row.program>>

\* a step of the updates of a clock-out
UpdatesStep(s) ==
    /\ req[s].pc \in {"co_update_E", "co_update_F", "co_update_G"}
    /\ req'[s] # req[s]

\* C26: a clock-out locates an open entry of its worker and its updates
\* change nothing but the clock-out time, the actual hours and the adjusted
\* hours of that entry: the entry's sequence number, worker, date, clock-in
\* time and program, and every other entry, stay as they are, also when
\* clock-ins of other workers append rows between its read and its writes.
C26_OnlyTheLocatedEntry ==
    [][\A s \in Sessions :
         /\ LocatedStep(s)
            => /\ req'[s].row_number - 1 \in 1..Len(sheet)
               /\ IsOpen(sheet[req'[s].row_number - 1])
               /\ sheet[req'[s].row_number - 1].teacher_id = req[s].teacher_id
         /\ UpdatesStep(s)
            => /\ Len(sheet') = Len(sheet)
               /\ sheet[req[s].row_number - 1].teacher_id = req[s].teacher_id
               /\ \A i \in 1..Len(sheet) :
                    IF i = req[s].row_number - 1
                    THEN Identity(sheet'[i]) = Identity(sheet[i])
                    ELSE sheet'[i] = sheet[i]
         /\ (LastUpdateStep(s) /\ req'[s].result)
            => ~ IsOpen(sheet'[req[s].row_number - 1])]_vars

\* a clock-out has written the clock-out time and the actual hours of its
\* entry, and the ledger holds an entry of another worker clocked in after
\* the clock-out read the ledger
C26_Witness ==
    \E s \in Sessions :
        /\ req[s].pc = "co_update_G"
        /\ req[s].updated = <<TRUE, TRUE>>
        /\ \E i \in 1..Len(sheet) :
             /\ sheet[i].teacher_id # req[s].teacher_id
             /\ sheet[i].date = req[s].current_date
             /\ sheet[i].clock_in > req[s].current_time

\* no clock-out is between its first and its last update
NoUpdateInProgress ==
    \A s \in Sessions : req[s].pc \notin {"co_update_E", "co_update_F", "co_update_G"}

\* C27: whenever no clock-out is in the middle of its updates, overlapping
\* clock-outs of one worker having come and gone, every closed entry stores
\* as actual hours its own clock-out time minus its own clock-in time, in
\* hours rounded to two decimals, and as adjusted hours adjust_hours of that
\* time for its own program.
C27_HoursMatchTimes ==
    NoUpdateInProgress
    => \A i \in 1..Len(sheet) :
         ~ IsOpen(sheet[i])
         => /\ sheet[i].actual_hours = RoundHours(sheet[i].clock_out - sheet[i].clock_in)
            /\ sheet[i].adjusted_hours =
                 adjust_hours(sheet[i].clock_out - sheet[i].clock_in, sheet[i].program)

\* a step in which request o reads the ledger from the store
ReadsLedger(o) ==
    /\ req'[o] # req[o]
    /\ ~ cache.valid
    /\ cache'.valid

\* C28: while a clock-out is in progress, no read of the ledger by another
\* request returns an entry with a clock-out time whose actual hours and
\* adjusted hours are both still 0.
C28_NoHalfClosedEntryRead ==
    [][\A s \in Sessions, o \in Sessions :
         (/\ o # s
          /\ req[s].pc \in {"co_update_E", "co_update_F", "co_update_G"}
          /\ ReadsLedger(o))
         => \A i \in 1..Len(cache'.df.rows) :
              ~ IsOpen(cache'.df.rows[i])
              => ~ (/\ cache'.df.rows[i].actual_hours = 0
                    /\ cache'.df.rows[i].adjusted_hours = 0)]_vars

\* C29: with the store available, a clock-out of a worker who has an open
\* entry dated today, with "Select Program" or the entry's program, passes
\* the check, locates that entry and ends in success with the entry closed; a
\* clock-in of a worker with no open entry dated today, closed entries of
\* today or not, goes on and ends in success with a new open entry appended.
C29_AlternateWithinDay ==
    [][\A s \in Sessions :
         /\ (/\ StartsClockOut(s)
             /\ req'[s].teacher_id \in Teachers
             /\ OpenRows(sheet, req'[s].teacher_id, ServerDate) # {})
            => req'[s].pc = "co_locate"
         /\ (/\ LocateStep(s)
             /\ OpenRows(sheet, req[s].teacher_id, ServerDate) # {}
             /\ req[s].program \in
                  {SelectProgram,
                   sheet[Min(OpenRows(sheet, req[s].teacher_id, ServerDate))].program})
            => /\ req'[s].pc = "co_update_E"
               /\ req'[s].row_number - 1 = Min(OpenRows(sheet, req[s].teacher_id, ServerDate))
         /\ LastUpdateStep(s)
            => /\ req'[s].result
               /\ ~ IsOpen(sheet'[req[s].row_number - 1])
         /\ (/\ StartsClockIn(s)
             /\ req'[s].teacher_id \in Teachers
             /\ req'[s].program \in Programs
             /\ OpenRows(sheet, req'[s].teacher_id, ServerDate) = {})
            => req'[s].pc = "ci_prepare"
         /\ AppendStep(s)
            => /\ req'[s].result
               /\ Len(sheet') = Len(sheet) + 1
               /\ IsOpen(sheet'[Len(sheet')])
               /\ sheet'[Len(sheet')].teacher_id = req[s].teacher_id
               /\ sheet'[Len(sheet')].date = req[s].current_date]_vars

\* a worker has clocked in, out, in and out again on one day: the second
\* clock-out has succeeded and both entries of the day are closed
C29_Witness ==
    \E s \in Sessions :
        /\ req[s].pc = "done"
        /\ req[s].op = "clock_out"
        /\ req[s].result
        /\ Len(sheet) = 2
        /\ sheet[1].teacher_id = req[s].teacher_id
        /\ sheet[2].teacher_id = req[s].teacher_id
        /\ sheet[1].date = sheet[2].date
        /\ ~ IsOpen(sheet[1])
        /\ ~ IsOpen(sheet[2])

\* C30: the payroll periods tile the calendar: today lies within the first
\* period, and each period starts on the day after the end of the next older
\* period, also across a year boundary.
C30_PeriodsTile ==
    (Calculated /\ calc.num_periods >= 1)
    => /\ toordinal(calc.periods[1].start_date) <= toordinal(calc.current_date)
       /\ toordinal(calc.current_date) <= toordinal(calc.periods[1].end_date)
       /\ \A k \in 1..(calc.num_periods - 1) :
            toordinal(calc.periods[k].start_date)
              = toordinal(calc.periods[k + 1].end_date) + 1

\* the periods of 5 January 2025 have been calculated: the first runs from
\* 20 December 2024 to 19 January 2025, the one before ends on 19 December 2024
C30_Witness ==
    /\ Calculated
    /\ calc.num_periods = 2
    /\ calc.current_date = <<2025, 1, 5>>
    /\ calc.periods[1].start_date = <<2024, 12, 20>>
    /\ calc.periods[2].end_date = <<2024, 12, 19>>

====
